---- MODULE Spec2Model ----
(***************************************************************************)
(* Model of cdk-loadbalanced-service: the LoadBalancedService constructor  *)
(* (the attachment orchestrator, three historical variants) and the        *)
(* context resolution functions getLoadBalancedServiceContext / getContext *)
(* / getLoadBalancerContext.                                               *)
(*                                                                         *)
(* Strings that the code takes apart (domain names) are sequences of       *)
(* one-character strings.  An optional value is a sequence of length 0     *)
(* (undefined) or 1 (the value).                                           *)
(***************************************************************************)
EXTENDS Integers, Sequences, FiniteSets, TLC

VARIABLES
    variant,      \* which source variant of the constructor / resolver runs
    id,           \* the construct id passed to the constructor
    options,      \* the LoadBalancedServiceOptions passed to the constructor
    pc,           \* position of the constructor in its body (0: not running)
    declared,     \* what the constructor has declared so far, in order
    error,        \* the error the constructor threw, "" when none
    lbListeners,  \* what describeListeners returns (optional list)
    rules,        \* the rules the shared listeners hold
    ops           \* the attachment operations: resolution, attach, apply

vars == <<variant, id, options, pc, declared, error, lbListeners, rules, ops>>

orchVars == <<variant, id, options, pc, declared, error>>
envVars == <<lbListeners, rules, ops>>

(***************************************************************************)
(* Bounds                                                                  *)
(***************************************************************************)
MaxDomainLen == 5
MaxSecurityGroups == 2
MaxPriority == 2
MaxListeners == 2
NumOps == 2
MaxAttach == 2

None == <<>>
Some(x) == <<x>>
IsSome(o) == Len(o) = 1
Get(o) == o[1]

Chars == {"a", "."}

RECURSIVE StringsOfLen(_)
StringsOfLen(n) ==
    IF n = 0 THEN {<<>>}
    ELSE {Append(s, c) : s \in StringsOfLen(n - 1), c \in Chars}

Strings == UNION {StringsOfLen(n) : n \in 0..MaxDomainLen}

(***************************************************************************)
(* String.prototype.split("."), Array.prototype.slice(start) and           *)
(* Array.prototype.join(".") as the constructor uses them.                 *)
(***************************************************************************)
RECURSIVE Split(_)
Split(s) ==
    IF \A i \in 1..Len(s) : s[i] # "."
    THEN <<s>>
    ELSE LET i == CHOOSE k \in 1..Len(s) :
                    s[k] = "." /\ \A j \in 1..(k - 1) : s[j] # "."
         IN <<SubSeq(s, 1, i - 1)>> \o Split(SubSeq(s, i + 1, Len(s)))

Slice(xs, start) ==
    LET from == IF start < 0
                THEN (IF Len(xs) + start < 0 THEN 0 ELSE Len(xs) + start)
                ELSE (IF start > Len(xs) THEN Len(xs) ELSE start)
    IN SubSeq(xs, from + 1, Len(xs))

RECURSIVE Join(_)
Join(xs) ==
    IF Len(xs) = 0 THEN <<>>
    ELSE IF Len(xs) = 1 THEN xs[1]
    ELSE xs[1] \o <<".">> \o Join(Tail(xs))

\* Faulty variant: || in place of ??, so an empty route53ZoneName is skipped.
ZoneDomainNameOr(o) ==
    IF IsSome(o.route53ZoneName) /\ Get(o.route53ZoneName) # <<>>
    THEN Get(o.route53ZoneName)
    ELSE Join(Slice(Split(o.domainName), -2))

\* route53ZoneName ?? domainName.split(".").slice(-2).join(".")
ZoneDomainName(o) ==
    IF IsSome(o.route53ZoneName)
    THEN Get(o.route53ZoneName)
    ELSE Join(Slice(Split(o.domainName), -2))

(***************************************************************************)
(* The LoadBalancedService constructor.                                    *)
(*   "lookup": src/unnamed/part_000 (references by lookup)                 *)
(*   "single": src/lib/index.ts, first class (one security group)          *)
(*   "multi" : src/lib/index.ts, second class (security group list)        *)
(***************************************************************************)
Variants == {"lookup", "single", "multi"}

\* Faulty variant: the certificate is declared before the target group.
ProgramSwapped(v) ==
    IF v = "lookup" THEN
        <<"SecurityGroups", "DomainZone", "LoadBalancer", "Listener", "Vpc",
          "Cluster", "Certificate", "TargetGroupFactory", "ListenerRule",
          "ListenerCertificate", "AliasRecord", "ServiceFactory", "AddTarget">>
    ELSE IF v = "single" THEN
        <<"Vpc", "SecurityGroups", "Cluster", "DomainZone", "LoadBalancer",
          "Listener", "Certificate", "TargetGroupFactory", "ListenerRule",
          "ListenerCertificate", "AliasRecord", "ServiceFactory", "AddTarget">>
    ELSE
        <<"Vpc", "SecurityGroups", "Cluster", "DomainZone",
          "LoadBalancerSecurityGroup", "LoadBalancer", "Listener",
          "Certificate", "TargetGroupFactory", "ListenerRule",
          "ListenerCertificate", "AliasRecord", "ServiceFactory", "AddTarget">>

\* Faulty variant: targetGroupFactory is called before the listener is declared.
ProgramListenerLate(v) ==
    IF v = "lookup" THEN
        <<"SecurityGroups", "DomainZone", "LoadBalancer", "Vpc",
          "Cluster", "TargetGroupFactory", "Listener", "Certificate", "ListenerRule",
          "ListenerCertificate", "AliasRecord", "ServiceFactory", "AddTarget">>
    ELSE IF v = "single" THEN
        <<"Vpc", "SecurityGroups", "Cluster", "DomainZone", "LoadBalancer",
          "TargetGroupFactory", "Listener", "Certificate", "ListenerRule",
          "ListenerCertificate", "AliasRecord", "ServiceFactory", "AddTarget">>
    ELSE
        <<"Vpc", "SecurityGroups", "Cluster", "DomainZone",
          "LoadBalancerSecurityGroup", "LoadBalancer",
          "TargetGroupFactory", "Listener", "Certificate", "ListenerRule",
          "ListenerCertificate", "AliasRecord", "ServiceFactory", "AddTarget">>

\* The constructor's statements, in the order of the source text.
Program(v) ==
    IF v = "lookup" THEN
        <<"SecurityGroups", "DomainZone", "LoadBalancer", "Listener", "Vpc",
          "Cluster", "TargetGroupFactory", "Certificate", "ListenerRule",
          "ListenerCertificate", "AliasRecord", "ServiceFactory", "AddTarget">>
    ELSE IF v = "single" THEN
        <<"Vpc", "SecurityGroups", "Cluster", "DomainZone", "LoadBalancer",
          "Listener", "TargetGroupFactory", "Certificate", "ListenerRule",
          "ListenerCertificate", "AliasRecord", "ServiceFactory", "AddTarget">>
    ELSE
        <<"Vpc", "SecurityGroups", "Cluster", "DomainZone",
          "LoadBalancerSecurityGroup", "LoadBalancer", "Listener",
          "TargetGroupFactory", "Certificate", "ListenerRule",
          "ListenerCertificate", "AliasRecord", "ServiceFactory", "AddTarget">>

\* One declaration: a child construct of `this` (scope "this"), a value a
\* factory returned (scope "caller"), or a target registration.
Blank ==
    [kind |-> "", id |-> <<>>, scope |-> "this", refs |-> {}, arg |-> <<>>,
     name |-> <<>>, priority |-> 0, conditions |-> <<>>, forward |-> <<>>]

\* ec2.Vpc.fromLookup(this, "Vpc" | "ECSVPC", { vpcId })
VpcNode(v, o) ==
    [Blank EXCEPT !.kind = "Vpc",
                  !.id = IF v = "lookup" THEN <<"Vpc">> ELSE <<"ECSVPC">>,
                  !.arg = o.vpcId]

\* ecsSecurityGroupIds.map((securityGroupId, i) => ...`ECSSecurityGroup${i}`)
\* or, in the single variant, the one "ECSSecurityGroup".
SecurityGroupNodes(v, o) ==
    IF v = "single"
    THEN <<[Blank EXCEPT !.kind = "SecurityGroup",
                         !.id = <<"ECSSecurityGroup">>,
                         !.arg = o.securityGroupIds[1]]>>
    ELSE [i \in 1..Len(o.securityGroupIds) |->
            [Blank EXCEPT !.kind = "SecurityGroup",
                          !.id = <<"ECSSecurityGroup", i - 1>>,
                          !.arg = o.securityGroupIds[i]]]

\* rt53.HostedZone.fromLookup(this, "ECSZone", { domainName: ... }) or
\* rt53.HostedZone.fromHostedZoneAttributes(this, "ECSZone", { hostedZoneId, zoneName })
DomainZoneNode(v, o) ==
    [Blank EXCEPT !.kind = "DomainZone",
                  !.id = <<"ECSZone">>,
                  !.name = IF v = "lookup" THEN ZoneDomainName(o)
                           ELSE Get(o.route53ZoneName)]

\* ec2.SecurityGroup.fromSecurityGroupId(this, id, loadBalancerSecurityGroupId)
LoadBalancerSecurityGroupNode(cid, o) ==
    [Blank EXCEPT !.kind = "LoadBalancerSecurityGroup",
                  !.id = cid,
                  !.arg = o.loadBalancer.securityGroupId]

LoadBalancerNode(o) ==
    [Blank EXCEPT !.kind = "LoadBalancer",
                  !.id = <<"ECSLoadBalancer">>,
                  !.arg = o.loadBalancer.loadBalancerArn]

ListenerNode(v, o) ==
    [Blank EXCEPT !.kind = "Listener",
                  !.id = <<"ECSListener">>,
                  !.arg = o.loadBalancer.listenerArn,
                  !.refs = IF v = "lookup" THEN {}
                           ELSE IF v = "single" THEN {"SecurityGroup"}
                           ELSE {"LoadBalancerSecurityGroup"}]

\* ecs.Cluster.fromClusterAttributes(this, "ECSCluster", { vpc, clusterName, securityGroups })
ClusterNode(o) ==
    [Blank EXCEPT !.kind = "Cluster",
                  !.id = <<"ECSCluster">>,
                  !.arg = o.clusterName,
                  !.refs = {"Vpc"} \cup
                           (IF Len(o.securityGroupIds) > 0
                            THEN {"SecurityGroup"} ELSE {})]

\* const targetGroup = targetGroupFactory(vpc)
TargetGroupValue ==
    [Blank EXCEPT !.kind = "TargetGroup", !.id = <<"targetGroup">>,
                  !.scope = "caller", !.refs = {"Vpc"}]

\* new acm.DnsValidatedCertificate(this, "ACMCert", { domainName, hostedZone: domainZone })
CertificateNode(o) ==
    [Blank EXCEPT !.kind = "Certificate",
                  !.id = <<"ACMCert">>,
                  !.name = o.domainName,
                  !.refs = {"DomainZone"}]

\* Faulty variant: the rule is declared at another priority than the Context's.
ListenerRulePriorityFresh(o) == o.loadBalancer.rulePriority + 1

\* priority: rulePriority
ListenerRulePriority(o) == o.loadBalancer.rulePriority

\* conditions: [elbv2.ListenerCondition.hostHeaders([domainName])]
ListenerRuleConditions(o) ==
    <<[field |-> "host-header", values |-> <<o.domainName>>]>>

\* new elbv2.ApplicationListenerRule(this, "ALBListenerRule", {...})
ListenerRuleNode(o) ==
    [Blank EXCEPT !.kind = "ListenerRule",
                  !.id = <<"ALBListenerRule">>,
                  !.priority = ListenerRulePriority(o),
                  !.conditions = ListenerRuleConditions(o),
                  !.forward = <<"TargetGroup">>,
                  !.refs = {"Listener", "TargetGroup"}]

\* new elbv2.ApplicationListenerCertificate(this, "ALBListenerCert", { listener, certificates: [cert] })
ListenerCertificateNode ==
    [Blank EXCEPT !.kind = "ListenerCertificate",
                  !.id = <<"ALBListenerCert">>,
                  !.refs = {"Listener", "Certificate"}]

\* Faulty variant: the alias record is skipped when createRoute53ARecord is false.
AliasRecordNodesIfEnabled(o) ==
    IF o.createRoute53ARecord = Some(FALSE) THEN <<>>
    ELSE <<[Blank EXCEPT !.kind = "AliasRecord",
                         !.id = <<"ALBAlias">>,
                         !.name = o.domainName,
                         !.refs = {"DomainZone", "LoadBalancer"}]>>

\* new rt53.ARecord(this, "ALBAlias", { recordName: domainName, zone, target })
\* The statement is unconditional: no option is read.
AliasRecordNodes(o) ==
    <<[Blank EXCEPT !.kind = "AliasRecord",
                    !.id = <<"ALBAlias">>,
                    !.name = o.domainName,
                    !.refs = {"DomainZone", "LoadBalancer"}]>>

\* const service = serviceFactory(cluster, { securityGroups, vpc, targetGroup, hostedZone })
ServiceValue(o) ==
    [Blank EXCEPT !.kind = "Service", !.id = <<"service">>,
                  !.scope = "caller",
                  !.refs = {"Cluster", "Vpc", "TargetGroup", "DomainZone"} \cup
                           (IF Len(o.securityGroupIds) > 0
                            THEN {"SecurityGroup"} ELSE {})]

\* targetGroup.addTarget(service)
TargetRegistration ==
    [Blank EXCEPT !.kind = "TargetRegistration", !.id = <<"service">>,
                  !.scope = "caller", !.refs = {"TargetGroup", "Service"}]

\* What one statement of the constructor appends when it returns normally.
StepEntries(step, v, cid, o) ==
    CASE step = "Vpc" -> <<VpcNode(v, o)>>
      [] step = "SecurityGroups" -> SecurityGroupNodes(v, o)
      [] step = "DomainZone" -> <<DomainZoneNode(v, o)>>
      [] step = "LoadBalancerSecurityGroup" -> <<LoadBalancerSecurityGroupNode(cid, o)>>
      [] step = "LoadBalancer" -> <<LoadBalancerNode(o)>>
      [] step = "Listener" -> <<ListenerNode(v, o)>>
      [] step = "Cluster" -> <<ClusterNode(o)>>
      [] step = "TargetGroupFactory" -> <<TargetGroupValue>>
      [] step = "Certificate" -> <<CertificateNode(o)>>
      [] step = "ListenerRule" -> <<ListenerRuleNode(o)>>
      [] step = "ListenerCertificate" -> <<ListenerCertificateNode>>
      [] step = "AliasRecord" -> AliasRecordNodes(o)
      [] step = "ServiceFactory" -> <<ServiceValue(o)>>
      [] step = "AddTarget" -> <<TargetRegistration>>

(***************************************************************************)
(* Inputs of one constructor run                                           *)
(***************************************************************************)
ConstructIds == {<<"LBService">>, <<"ECSVPC">>}

SecurityGroupIds(n) == [i \in 1..n |-> <<"sg", i>>]

\* A resolved EcsLoadBalancerContext.  The lookup variant carries only the
\* first three fields; the others are empty there.
LoadBalancerContext(v, lbArn, listenerArn, priority) ==
    [loadBalancerArn |-> lbArn,
     listenerArn |-> listenerArn,
     rulePriority |-> priority,
     securityGroupId |-> IF v = "lookup" THEN <<>> ELSE <<"sg-lb">>]

OptionsOf(v, domainName, zone, n, cr, lb) ==
    [domainName |-> domainName,
     vpcId |-> <<"vpc-1">>,
     clusterName |-> <<"cluster">>,
     securityGroupIds |-> SecurityGroupIds(n),
     route53ZoneName |-> zone,
     createRoute53ARecord |-> cr,
     loadBalancer |-> lb]

ZoneInputs(v) ==
    IF v = "lookup" THEN {None, Some(<<>>), Some(<<"a">>)} ELSE {Some(<<"a">>)}

SecurityGroupCounts(v) ==
    IF v = "single" THEN {1} ELSE 0..MaxSecurityGroups

NoOptions == OptionsOf("lookup", <<>>, None, 0, None,
                       LoadBalancerContext("lookup", <<>>, <<>>, 0))

(***************************************************************************)
(* The constructor, statement by statement                                 *)
(***************************************************************************)
Running == pc \in 1..Len(Program(variant))

Step == Program(variant)[pc]

At(step) == Running /\ Step = step

\* The statement at pc returns normally and control moves to the next one.
Advance(entries) ==
    /\ declared' = declared \o entries
    /\ pc' = pc + 1
    /\ UNCHANGED <<variant, id, options, error>>
    /\ UNCHANGED envVars

\* Faulty variant: the exception is caught and the constructor goes on.
ThrowSwallowed ==
    /\ pc' = pc + 1
    /\ error' = "FactoryError"
    /\ UNCHANGED <<variant, id, options, declared>>
    /\ UNCHANGED envVars

\* A factory callback threw: the exception leaves the constructor.
Throw ==
    /\ pc' = 0
    /\ error' = "FactoryError"
    /\ UNCHANGED <<variant, id, options, declared>>
    /\ UNCHANGED envVars

DeclareVpc ==
    /\ At("Vpc")
    /\ Advance(StepEntries("Vpc", variant, id, options))

DeclareSecurityGroups ==
    /\ At("SecurityGroups")
    /\ Advance(StepEntries("SecurityGroups", variant, id, options))

DeclareDomainZone ==
    /\ At("DomainZone")
    /\ Advance(StepEntries("DomainZone", variant, id, options))

DeclareLoadBalancerSecurityGroup ==
    /\ At("LoadBalancerSecurityGroup")
    /\ Advance(StepEntries("LoadBalancerSecurityGroup", variant, id, options))

DeclareLoadBalancer ==
    /\ At("LoadBalancer")
    /\ Advance(StepEntries("LoadBalancer", variant, id, options))

DeclareListener ==
    /\ At("Listener")
    /\ Advance(StepEntries("Listener", variant, id, options))

DeclareCluster ==
    /\ At("Cluster")
    /\ Advance(StepEntries("Cluster", variant, id, options))

CallTargetGroupFactory ==
    /\ At("TargetGroupFactory")
    /\ Advance(StepEntries("TargetGroupFactory", variant, id, options))

TargetGroupFactoryThrows ==
    /\ At("TargetGroupFactory")
    /\ Throw

DeclareCertificate ==
    /\ At("Certificate")
    /\ Advance(StepEntries("Certificate", variant, id, options))

DeclareListenerRule ==
    /\ At("ListenerRule")
    /\ Advance(StepEntries("ListenerRule", variant, id, options))

DeclareListenerCertificate ==
    /\ At("ListenerCertificate")
    /\ Advance(StepEntries("ListenerCertificate", variant, id, options))

DeclareAliasRecord ==
    /\ At("AliasRecord")
    /\ Advance(StepEntries("AliasRecord", variant, id, options))

CallServiceFactory ==
    /\ At("ServiceFactory")
    /\ Advance(StepEntries("ServiceFactory", variant, id, options))

ServiceFactoryThrows ==
    /\ At("ServiceFactory")
    /\ Throw

AddTarget ==
    /\ At("AddTarget")
    /\ Advance(StepEntries("AddTarget", variant, id, options))

Done == pc = Len(Program(variant)) + 1

NoOps == [p \in 1..NumOps |->
            [pc |-> "idle", hostname |-> <<>>, listenerArn |-> None,
             alloc |-> None, ctx |-> None, err |-> "", rule |-> None,
             attaches |-> 0]]

DomainNames ==
    {<<"a">>, <<"a", ".", "a">>, <<"a", ".", "a", ".", "a">>}

OrchestratorStart ==
    /\ pc = 1
    /\ declared = <<>>
    /\ error = ""
    /\ lbListeners = None
    /\ rules = {}
    /\ ops = NoOps

\* One constructor run over every combination of the options.
Init ==
    /\ variant \in Variants
    /\ id \in ConstructIds
    /\ options \in {OptionsOf(variant, d, z, n, cr,
                        LoadBalancerContext(variant, <<"lb-1">>, <<"L1">>, pr)) :
                      d \in DomainNames, z \in ZoneInputs(variant),
                      n \in SecurityGroupCounts(variant),
                      cr \in {None, Some(TRUE), Some(FALSE)},
                      pr \in 1..MaxPriority}
    /\ OrchestratorStart

\* One constructor run over every domain name up to MaxDomainLen characters.
InitZone ==
    /\ variant \in Variants
    /\ id = <<"LBService">>
    /\ options \in {OptionsOf(variant, d, z, 1, None,
                        LoadBalancerContext(variant, <<"lb-1">>, <<"L1">>, 1)) :
                      d \in Strings, z \in ZoneInputs(variant)}
    /\ OrchestratorStart

Next ==
    \/ DeclareVpc
    \/ DeclareSecurityGroups
    \/ DeclareDomainZone
    \/ DeclareLoadBalancerSecurityGroup
    \/ DeclareLoadBalancer
    \/ DeclareListener
    \/ DeclareCluster
    \/ CallTargetGroupFactory
    \/ TargetGroupFactoryThrows
    \/ DeclareCertificate
    \/ DeclareListenerRule
    \/ DeclareListenerCertificate
    \/ DeclareAliasRecord
    \/ CallServiceFactory
    \/ ServiceFactoryThrows
    \/ AddTarget

Spec == Init /\ [][Next]_vars

SpecZone == InitZone /\ [][Next]_vars

(***************************************************************************)
(* Context resolution: getLoadBalancedServiceContext / getContext and      *)
(* getLoadBalancerContext, the rule-priority allocator they call, and the  *)
(* deployment engine that creates the declared rule on the shared listener.*)
(***************************************************************************)
Ops == 1..NumOps

Hostnames == {<<"a">>, <<"a", ".", "a">>}

ListenerArns == {<<"L1">>, <<"L2">>}

ListenerDescriptions ==
    [Protocol : {"HTTP", "HTTPS"},
     ListenerArn : {None} \cup {Some(l) : l \in ListenerArns}]

RECURSIVE ListsOfLen(_)
ListsOfLen(n) ==
    IF n = 0 THEN {<<>>}
    ELSE {Append(l, x) : l \in ListsOfLen(n - 1), x \in ListenerDescriptions}

ListenerLists == UNION {ListsOfLen(n) : n \in 0..MaxListeners}

\* What describeListeners answers.  By load balancer (part_000): any list, or
\* no Listeners member at all.  By listener ARN (index.ts): the listener of
\* that ARN, or nothing.
ListenerResults(v) ==
    IF v = "lookup"
    THEN {None} \cup {Some(l) : l \in ListenerLists}
    ELSE {Some(<<>>)} \cup
         {Some(<<[Protocol |-> pr, ListenerArn |-> Some(<<"L1">>)]>>) :
             pr \in {"HTTP", "HTTPS"}}

\* Faulty variant: HTTPS listeners without ARN are skipped.
RECURSIVE FindHttpsWithArn(_)
FindHttpsWithArn(xs) ==
    IF xs = <<>> THEN None
    ELSE IF Head(xs).Protocol = "HTTPS" /\ IsSome(Head(xs).ListenerArn)
         THEN Some(Head(xs))
         ELSE FindHttpsWithArn(Tail(xs))

\* listeners.find((l) => l.Protocol === "HTTPS")
RECURSIVE FindHttps(_)
FindHttps(xs) ==
    IF xs = <<>> THEN None
    ELSE IF Head(xs).Protocol = "HTTPS" THEN Some(Head(xs))
    ELSE FindHttps(Tail(xs))

\* listeners?.find(...)?.ListenerArn
HttpsListenerArn(listeners) ==
    IF ~IsSome(listeners) THEN None
    ELSE LET l == FindHttps(Get(listeners))
         IN IF IsSome(l) THEN Get(l).ListenerArn ELSE None

\* const [listener] = (...).Listeners!  and then listener.ListenerArn!
FirstListenerArn(listeners) == Get(listeners)[1].ListenerArn

\* The allocator findPriorityOrFail(listenerArn, hostname): the lowest
\* priority no rule of the listener uses, or a failure when there is none.
UsedPriorities(rs, arn) == {r.priority : r \in {x \in rs : x.listener = arn}}

FindPriority(rs, arn, hostname) ==
    LET free == (1..MaxPriority) \ UsedPriorities(rs, arn)
    IN IF free = {} THEN None
       ELSE Some(CHOOSE f \in free : \A g \in free : f <= g)

\* Faulty variant: a Context is returned although the allocator failed.
ResolveOutcomePartial(v, arn, r) ==
    [pc |-> "resolved", err |-> "",
     ctx |-> Some(LoadBalancerContext(v, <<"lb-1">>, arn,
                                      IF IsSome(r) THEN Get(r) ELSE 0))]

\* rulePriority: await findPriorityOrFail(listenerArn, hostname); return context
\* A rejected await throws out of getLoadBalancerContext and then out of its
\* caller, which returns nothing.
ResolveOutcome(v, arn, r) ==
    IF IsSome(r)
    THEN [pc |-> "resolved", err |-> "",
          ctx |-> Some(LoadBalancerContext(v, <<"lb-1">>, arn, Get(r)))]
    ELSE [pc |-> "failed", err |-> "NoAvailablePriority", ctx |-> None]

\* The whole constructor on one Context: what it declares when it returns,
\* or up to the factory that threw.
RECURSIVE ConstructFrom(_, _, _, _, _, _)
ConstructFrom(k, v, cid, o, tgOk, sfOk) ==
    IF k > Len(Program(v)) THEN <<>>
    ELSE LET step == Program(v)[k]
         IN IF \/ step = "TargetGroupFactory" /\ ~tgOk
               \/ step = "ServiceFactory" /\ ~sfOk
            THEN <<>>
            ELSE StepEntries(step, v, cid, o)
                     \o ConstructFrom(k + 1, v, cid, o, tgOk, sfOk)

RuleOf(graph) ==
    LET i == CHOOSE j \in 1..Len(graph) : graph[j].kind = "ListenerRule"
        l == CHOOSE j \in 1..Len(graph) : graph[j].kind = "Listener"
    IN [listener |-> graph[l].arg,
        priority |-> graph[i].priority,
        conditions |-> graph[i].conditions]

\* Faulty variant: the engine accepts a priority already in use.
PriorityInUseNever(rs, arn, priority) == FALSE

\* The engine's rule creation refuses a priority the listener already uses.
PriorityInUse(rs, arn, priority) == priority \in UsedPriorities(rs, arn)

OtherHost == <<[field |-> "host-header", values |-> <<<<".">>>>]>>

ExistingRules(S) ==
    {[listener |-> l, priority |-> pr, conditions |-> OtherHost,
      owner |-> 0, attempt |-> 0] : l \in ListenerArns, pr \in S}

Op(p) == ops[p]

SetOp(p, new) ==
    /\ ops' = [ops EXCEPT ![p] = new]
    /\ UNCHANGED <<lbListeners, orchVars>>

\* await elbv2.describeListeners(...).promise(), then the selection of the
\* listener up to the call of the next awaited function.
DescribeListeners(p) ==
    /\ Op(p).pc = "start"
    /\ UNCHANGED rules
    /\ IF variant = "lookup"
       THEN LET arn == HttpsListenerArn(lbListeners)
            IN IF IsSome(arn)
               THEN SetOp(p, [Op(p) EXCEPT !.pc = "allocate",
                                           !.listenerArn = arn])
               ELSE SetOp(p, [Op(p) EXCEPT !.pc = "failed",
                                           !.err = "NoHttpsListener"])
       ELSE IF Get(lbListeners) # <<>>
            THEN SetOp(p, [Op(p) EXCEPT !.pc = "describeLoadBalancers",
                                        !.listenerArn =
                                            FirstListenerArn(lbListeners)])
            ELSE SetOp(p, [Op(p) EXCEPT !.pc = "failed",
                                        !.err = "ListenerNotFound"])

\* await elbv2.describeLoadBalancers(...).promise(); if (loadbalancer == null) throw
DescribeLoadBalancers(p) ==
    /\ Op(p).pc = "describeLoadBalancers"
    /\ UNCHANGED rules
    /\ \E found \in BOOLEAN :
          IF found
          THEN SetOp(p, [Op(p) EXCEPT !.pc = "allocate"])
          ELSE SetOp(p, [Op(p) EXCEPT !.pc = "failed",
                                      !.err = "LoadBalancerNotFound"])

\* await findPriorityOrFail(listenerArn, hostname), then the return of
\* getLoadBalancerContext and of getLoadBalancedServiceContext / getContext.
AllocatePriority(p) ==
    /\ Op(p).pc = "allocate"
    /\ UNCHANGED rules
    /\ LET arn == Get(Op(p).listenerArn)
           r == FindPriority(rules, arn, Op(p).hostname)
           out == ResolveOutcome(variant, arn, r)
       IN SetOp(p, [Op(p) EXCEPT
                        !.alloc = Some([listener |-> arn,
                                        hostname |-> Op(p).hostname,
                                        result |-> r]),
                        !.pc = out.pc, !.err = out.err, !.ctx = out.ctx])

\* new LoadBalancedService(scope, id, { ...context, targetGroupFactory,
\* serviceFactory }): the first attachment of a resolved Context, or another
\* attachment of the same Context.
Attach(p) ==
    /\ Op(p).pc \in {"resolved", "attached"}
    /\ Op(p).attaches < MaxAttach
    /\ UNCHANGED rules
    /\ \E tgOk \in BOOLEAN, sfOk \in BOOLEAN :
          LET o == OptionsOf(variant, Op(p).hostname,
                             IF variant = "lookup" THEN None ELSE Some(<<"a">>),
                             1, None, Get(Op(p).ctx))
              graph == ConstructFrom(1, variant, id, o, tgOk, sfOk)
          IN IF tgOk /\ sfOk
             THEN SetOp(p, [Op(p) EXCEPT !.pc = "declared",
                                         !.rule = Some(RuleOf(graph)),
                                         !.attaches = @ + 1])
             ELSE SetOp(p, [Op(p) EXCEPT !.pc = "failed",
                                         !.err = "FactoryError"])

\* The engine applies the declared listener rule to the listener.
CreateRule(p) ==
    /\ Op(p).pc = "declared"
    /\ LET r == Get(Op(p).rule)
       IN IF PriorityInUse(rules, r.listener, r.priority)
          THEN /\ SetOp(p, [Op(p) EXCEPT !.pc = "conflict",
                                         !.err = "PriorityConflict"])
               /\ UNCHANGED rules
          ELSE /\ rules' = rules \cup
                     {[listener |-> r.listener, priority |-> r.priority,
                       conditions |-> r.conditions,
                       owner |-> p, attempt |-> Op(p).attaches]}
               /\ SetOp(p, [Op(p) EXCEPT !.pc = "attached"])

OpNext(p) ==
    \/ DescribeListeners(p)
    \/ DescribeLoadBalancers(p)
    \/ AllocatePriority(p)
    \/ Attach(p)
    \/ CreateRule(p)

NextResolve == \E p \in Ops : OpNext(p)

StartOp(h) == [NoOps[1] EXCEPT !.pc = "start", !.hostname = h]

ResolveStart ==
    /\ variant \in Variants
    /\ id = <<"LBService">>
    /\ options = NoOptions
    /\ pc = 0
    /\ declared = <<>>
    /\ error = ""
    /\ rules \in {ExistingRules(S) : S \in SUBSET (1..MaxPriority)}

\* One attachment operation against every answer describeListeners can give.
InitResolve ==
    /\ ResolveStart
    /\ lbListeners \in ListenerResults(variant)
    /\ \E h \in Hostnames :
          ops = [p \in Ops |-> IF p = 1 THEN StartOp(h) ELSE NoOps[p]]

\* NumOps independent attachment operations against one HTTPS listener.
InitRace ==
    /\ ResolveStart
    /\ lbListeners =
          Some(<<[Protocol |-> "HTTPS", ListenerArn |-> Some(<<"L1">>)]>>)
    /\ ops \in [Ops -> {StartOp(h) : h \in Hostnames}]

SpecResolve == InitResolve /\ [][NextResolve]_vars

SpecRace == InitRace /\ [][NextResolve]_vars

(***************************************************************************)
(* Properties of one constructor run                                       *)
(***************************************************************************)
Kinds(seq) == [i \in 1..Len(seq) |-> seq[i].kind]

IsPrefix(a, b) ==
    /\ Len(a) <= Len(b)
    /\ \A i \in 1..Len(a) : a[i] = b[i]

Count(kind) == Cardinality({i \in 1..Len(declared) : declared[i].kind = kind})

The(kind) == declared[CHOOSE i \in 1..Len(declared) : declared[i].kind = kind]

NumSecurityGroups == Len(options.securityGroupIds)

SecurityGroupKinds == [i \in 1..NumSecurityGroups |-> "SecurityGroup"]

\* Steps 6 to 11 of the declaration order.
CommonTail ==
    <<"TargetGroup", "Certificate", "ListenerRule", "ListenerCertificate",
      "AliasRecord", "Service", "TargetRegistration">>

ClaimedOrder ==
    <<"Vpc">> \o SecurityGroupKinds
        \o <<"DomainZone", "LoadBalancer", "Listener", "Cluster">>
        \o CommonTail

SourceOrder ==
    IF variant = "lookup" THEN
        SecurityGroupKinds
            \o <<"DomainZone", "LoadBalancer", "Listener", "Vpc", "Cluster">>
            \o CommonTail
    ELSE IF variant = "single" THEN
        <<"Vpc", "SecurityGroup", "Cluster", "DomainZone", "LoadBalancer",
          "Listener">> \o CommonTail
    ELSE
        <<"Vpc">> \o SecurityGroupKinds
            \o <<"Cluster", "DomainZone", "LoadBalancerSecurityGroup",
                 "LoadBalancer", "Listener">>
            \o CommonTail

\* C1 as claimed: the declarations follow the order VPC, security groups,
\* DNS zone, load balancer, listener, cluster, target group, certificate,
\* listener rule, certificate binding, alias record, service, registration.
C1_ClaimedOrder == IsPrefix(Kinds(declared), ClaimedOrder)

\* C1 (amended): in every state of a run, what has been declared so far is a
\* prefix of the order of the constructor's source text: in part_000 security
\* groups, DNS zone, load balancer, listener, VPC, cluster; in index.ts VPC,
\* security group(s), cluster, DNS zone, (load-balancer security group,) load
\* balancer, listener; then in every variant target group, certificate,
\* listener rule, certificate binding, alias record, service, registration.
\* A run that completed has declared the whole order.
C1_DeclarationOrder ==
    /\ IsPrefix(Kinds(declared), SourceOrder)
    /\ Done => Kinds(declared) = SourceOrder

C1_Witness ==
    /\ Done
    /\ variant = "multi"
    /\ NumSecurityGroups = 2
    /\ Count("TargetRegistration") = 1

ClaimedEdges ==
    {<<"Vpc", "Cluster">>, <<"Vpc", "LoadBalancer">>,
     <<"LoadBalancer", "Listener">>,
     <<"Listener", "TargetGroup">>, <<"Listener", "ListenerRule">>,
     <<"DomainZone", "Certificate">>, <<"DomainZone", "AliasRecord">>,
     <<"Certificate", "ListenerCertificate">>,
     <<"Cluster", "Service">>, <<"TargetGroup", "Service">>,
     <<"Vpc", "Service">>, <<"DomainZone", "Service">>,
     <<"Service", "TargetRegistration">>}

DeclaredBefore(kind, j) == \E i \in 1..(j - 1) : declared[i].kind = kind

Respects(edges) ==
    \A e \in edges : \A j \in 1..Len(declared) :
        declared[j].kind = e[2] => DeclaredBefore(e[1], j)

\* C2 as claimed: every edge of the attachment graph, VPC before
\* LoadBalancerRef included, is respected by the declarations.
C2_ClaimedDependencies == Respects(ClaimedEdges)

\* C2 (amended): every node is declared after the nodes it depends on, for
\* every edge of the attachment graph except VPC before LoadBalancerRef, which
\* holds in the index.ts variants only; and every declaration comes after
\* each declaration its arguments reference.
C2_Dependencies ==
    /\ Respects(ClaimedEdges \ {<<"Vpc", "LoadBalancer">>})
    /\ variant # "lookup" => Respects(ClaimedEdges)
    /\ \A j \in 1..Len(declared) : \A k \in declared[j].refs :
           DeclaredBefore(k, j)

C2_Witness ==
    /\ Done
    /\ variant = "lookup"
    /\ \E i, j \in 1..Len(declared) :
           /\ i < j
           /\ declared[i].kind = "LoadBalancer"
           /\ declared[j].kind = "Vpc"

AliasReached ==
    \/ Done
    \/ /\ Running
       /\ \E k \in 1..(pc - 1) : Program(variant)[k] = "AliasRecord"

C8_EndToEnd ==
    Done =>
        /\ Count("TargetGroup") = 1
        /\ Count("Service") = 1
        /\ Count("Certificate") = 1
        /\ The("Certificate").name = options.domainName
        /\ Count("ListenerRule") = 1
        /\ The("ListenerRule").priority = options.loadBalancer.rulePriority
        /\ The("ListenerRule").conditions =
               <<[field |-> "host-header", values |-> <<options.domainName>>]>>
        /\ The("ListenerRule").forward = <<"TargetGroup">>
        /\ Count("ListenerCertificate") = 1
        /\ The("ListenerCertificate").refs = {"Listener", "Certificate"}
        /\ Count("AliasRecord") = 1
        /\ The("AliasRecord").name = options.domainName
        /\ Count("TargetRegistration") = 1
        /\ The("TargetRegistration").id = The("Service").id

C8_Witness ==
    /\ Done
    /\ options.domainName = <<"a", ".", "a", ".", "a">>
    /\ NumSecurityGroups = 1
    /\ options.createRoute53ARecord = Some(TRUE)
    /\ The("ListenerRule").priority = MaxPriority

Later(kinds) == \A k \in kinds : Count(k) = 0

\* Everything SourceOrder lists before the first entry of the given kind.
RECURSIVE Before(_, _)
Before(order, kind) ==
    IF order = <<>> \/ Head(order) = kind THEN <<>>
    ELSE <<Head(order)>> \o Before(Tail(order), kind)

\* C9: after a factory callback failed the run is over (no statement is
\* enabled) and nothing later in the order is declared: without a target
\* group (targetGroupFactory failed) there is no certificate, listener rule,
\* certificate binding, alias record, service or registration; with one
\* (serviceFactory failed) there is no service and no registration; what was
\* declared before the failure is all still declared.
C9_FactoryFailure ==
    error = "FactoryError" =>
        /\ ~Running /\ ~Done
        /\ ~ENABLED Next
        /\ Count("TargetGroup") = 0 =>
              /\ Later({"Certificate", "ListenerRule", "ListenerCertificate",
                        "AliasRecord", "Service", "TargetRegistration"})
              /\ Kinds(declared) = Before(SourceOrder, "TargetGroup")
        /\ Count("TargetGroup") > 0 =>
              /\ Later({"Service", "TargetRegistration"})
              /\ Kinds(declared) = Before(SourceOrder, "Service")

C9_Witness ==
    /\ error = "FactoryError"
    /\ Count("TargetGroup") = 1
    /\ Count("AliasRecord") = 1
    /\ Count("TargetRegistration") = 0

\* The part of s after its second-to-last ".", all of s when it has fewer
\* than two.
Dots(s) == {i \in 1..Len(s) : s[i] = "."}

LastTwoLabels(s) ==
    IF Cardinality(Dots(s)) < 2 THEN s
    ELSE LET last == CHOOSE i \in Dots(s) : \A j \in Dots(s) : j <= i
             k == CHOOSE i \in Dots(s) \ {last} :
                      \A j \in Dots(s) \ {last} : j <= i
         IN SubSeq(s, k + 1, Len(s))

\* C10: the zone the part_000 constructor looks up is route53ZoneName when the
\* caller supplies it, and otherwise the last two dot-separated labels of
\* domainName joined by "."; a domainName of two or fewer labels yields
\* domainName itself.
C10_ZoneName ==
    (variant = "lookup" /\ Count("DomainZone") > 0) =>
        /\ Count("DomainZone") = 1
        /\ IsSome(options.route53ZoneName) =>
              The("DomainZone").name = Get(options.route53ZoneName)
        /\ ~IsSome(options.route53ZoneName) =>
              /\ The("DomainZone").name = LastTwoLabels(options.domainName)
              /\ Cardinality(Dots(options.domainName)) <= 1 =>
                    The("DomainZone").name = options.domainName

C10_Witness ==
    /\ variant = "lookup"
    /\ Count("DomainZone") = 1
    /\ options.route53ZoneName = None
    /\ options.domainName = <<"a", ".", "a", ".", "a">>
    /\ The("DomainZone").name = <<"a", ".", "a">>

(***************************************************************************)
(* Properties of resolution and of attachments sharing a listener          *)
(***************************************************************************)
Pending(p) == Op(p).pc \in {"resolved", "declared"} /\ Op(p).attaches <= 1

\* C3 as claimed: two Contexts resolved for the same listener while neither
\* has had its rule created yet never carry the same rulePriority.
C3_DistinctPriorities ==
    \A p, q \in Ops :
        (/\ p # q
         /\ Pending(p) /\ Pending(q)
         /\ Get(Op(p).ctx).listenerArn = Get(Op(q).ctx).listenerArn)
        => Get(Op(p).ctx).rulePriority # Get(Op(q).ctx).rulePriority

OwnRules(p) == {r \in rules : r.owner = p}

\* C4: the listener never holds two rules with the same priority; an
\* attachment whose priority is in use ends in PriorityConflict and nothing
\* further is enabled for it (no retry); a second attachment of one Context
\* never becomes attached, so an operation has at most one rule.
C4_NoDuplicateRule ==
    /\ \A r1, r2 \in rules :
           (r1.listener = r2.listener /\ r1.priority = r2.priority) => r1 = r2
    /\ \A p \in Ops :
           /\ Cardinality(OwnRules(p)) <= 1
           /\ Op(p).attaches >= 2 =>
                  /\ Op(p).pc \in {"declared", "conflict"}
                  /\ Cardinality(OwnRules(p)) = 1
           /\ Op(p).pc = "conflict" =>
                  /\ Op(p).err = "PriorityConflict"
                  /\ ~ENABLED OpNext(p)
                  /\ \E r \in rules :
                         /\ r.listener = Get(Op(p).rule).listener
                         /\ r.priority = Get(Op(p).rule).priority

C4_Witness ==
    \E p \in Ops :
        /\ Op(p).attaches = 2
        /\ Op(p).pc = "conflict"
        /\ \E r \in OwnRules(p) :
               /\ r.priority = Get(Op(p).ctx).rulePriority
               /\ r.conditions = Get(Op(p).rule).conditions

Listed == IF IsSome(lbListeners) THEN Get(lbListeners) ELSE <<>>

FirstHttpsAt(k) ==
    /\ Listed[k].Protocol = "HTTPS"
    /\ \A j \in 1..(k - 1) : Listed[j].Protocol # "HTTPS"

\* C5: resolution by load balancer selects the first listener in list order
\* whose protocol is HTTPS and uses its ARN; with no list, an empty list, no
\* HTTPS listener, or a first HTTPS listener without ARN it fails with
\* NoHttpsListener, and the allocator is never invoked.
C5_FirstHttpsListener ==
    \A p \in Ops :
        (variant = "lookup" /\ Op(p).pc \notin {"idle", "start"}) =>
            IF \E k \in 1..Len(Listed) :
                   FirstHttpsAt(k) /\ IsSome(Listed[k].ListenerArn)
            THEN LET k == CHOOSE i \in 1..Len(Listed) : FirstHttpsAt(i)
                 IN /\ Op(p).listenerArn = Listed[k].ListenerArn
                    /\ Op(p).err # "NoHttpsListener"
                    /\ IsSome(Op(p).alloc) =>
                           Some(Get(Op(p).alloc).listener) = Listed[k].ListenerArn
                    /\ IsSome(Op(p).ctx) =>
                           Some(Get(Op(p).ctx).listenerArn) = Listed[k].ListenerArn
            ELSE /\ Op(p).pc = "failed"
                 /\ Op(p).err = "NoHttpsListener"
                 /\ Op(p).alloc = None
                 /\ Op(p).ctx = None

C5_Witness ==
    /\ variant = "lookup"
    /\ Listed = <<[Protocol |-> "HTTP", ListenerArn |-> Some(<<"L1">>)],
                  [Protocol |-> "HTTPS", ListenerArn |-> Some(<<"L2">>)]>>
    /\ IsSome(Op(1).ctx)
    /\ Get(Op(1).ctx).listenerArn = <<"L2">>

ResolutionErrors ==
    {"NoHttpsListener", "ListenerNotFound", "LoadBalancerNotFound",
     "NoAvailablePriority"}

\* C6: when the allocator fails, resolution fails with NoAvailablePriority
\* and returns no Context; a Context exists only when every resolution step
\* succeeded, and its rulePriority is the value the allocator returned for
\* (listenerArn, domainName).
C6_NoPartialContext ==
    \A p \in Ops :
        /\ (IsSome(Op(p).alloc) /\ ~IsSome(Get(Op(p).alloc).result)) =>
               /\ Op(p).pc = "failed"
               /\ Op(p).err = "NoAvailablePriority"
               /\ Op(p).ctx = None
               /\ Op(p).rule = None
        /\ Op(p).err \in ResolutionErrors => Op(p).ctx = None
        /\ IsSome(Op(p).ctx) =>
               /\ IsSome(Op(p).listenerArn)
               /\ IsSome(Op(p).alloc)
               /\ Get(Op(p).alloc).result = Some(Get(Op(p).ctx).rulePriority)
               /\ Get(Op(p).alloc).listener = Get(Op(p).ctx).listenerArn
               /\ Get(Op(p).alloc).listener = Get(Op(p).listenerArn)
               /\ Get(Op(p).alloc).hostname = Op(p).hostname
               /\ Get(Op(p).ctx).rulePriority \in 1..MaxPriority
               /\ \A r \in rules :
                      (r.owner = 0 /\ r.listener = Get(Op(p).ctx).listenerArn)
                      => r.priority # Get(Op(p).ctx).rulePriority

C6_Witness ==
    \E p \in Ops :
        /\ IsSome(Op(p).alloc)
        /\ Get(Op(p).alloc).result = None
        /\ Op(p).pc = "failed"
        /\ Op(p).err = "NoAvailablePriority"
        /\ Op(p).ctx = None

(***************************************************************************)
(* Child identifiers of the construct                                      *)
(***************************************************************************)
Children == {i \in 1..Len(declared) : declared[i].scope = "this"}

\* C11 as claimed: within one run every child of the construct is declared
\* under an identifier no other child of the construct has, for every
\* construct id and every list of security group ids; the load-balancer
\* security-group reference, declared under the construct's own id, never
\* collides with a fixed child name.
C11_DistinctChildIds ==
    \A i, j \in Children : i # j => declared[i].id # declared[j].id

====
